---- MODULE Spec2Model ----
(***************************************************************************)
(* The battleships server (server.js, kept as src/unnamed/part_000): one   *)
(* process-wide game state and the socket.io handlers that change it.      *)
(* Every handler runs to completion (Node's single-threaded event loop),   *)
(* so every handler is one atomic action.                                  *)
(*                                                                         *)
(* Conventions                                                             *)
(*   - a JS object used as a map (board, ships, fog) is a function whose   *)
(*     DOMAIN is the set of its keys; {} is the function of empty domain;  *)
(*   - the board key `${r},${c}` is the pair <<r, c>>: for integer r and c *)
(*     the formatted string determines the pair and the pair the string;   *)
(*   - a JS Set is a set (its insertion order is not modelled);            *)
(*   - a formatted message is the tuple of its fragments;                  *)
(*   - null is Null for a socket id, turn and winner, NullName for a name; *)
(*   - a handler is an operator from the state object and the event to the *)
(*     state it leaves and the messages it emits, in order.                *)
(***************************************************************************)
EXTENDS Integers, Sequences, FiniteSets, TLC

VARIABLES
  phase,        \* state.phase
  players,      \* state.players: seat -> player state
  turn,         \* state.turn
  winner,       \* state.winner
  lastShooter,  \* history: who fired the last accepted shot of the running match
  payload,      \* the input of the placement validator under SpecValidate
  verdict       \* the validator's answer to payload under SpecValidate

gameVars == <<phase, players, turn, winner, lastShooter>>
vars == <<phase, players, turn, winner, lastShooter, payload, verdict>>

-----------------------------------------------------------------------------
\* Bounds of the model

\* how many socket ids there are: one more than the seats, so that a connection
\* without a seat exists whoever is seated.  A socket id is a connection's from
\* its 'connection' event to its 'disconnect'; the disconnect handler clears
\* every seat bound to the id, so the server keeps nothing of a closed
\* connection and a later connection may carry the id again.
NumSockets == 3
\* how many of the candidate target cells the clients of Spec fire at
NumFireCells == 2
\* how many cell-list variants per ship kind SpecValidate submits
NumVariants == 8

-----------------------------------------------------------------------------
\* Game constants

BOARD_SIZE == 10

SHIP_DEFS ==
  << [key |-> "carrier",    name |-> "Carrier",    size |-> 5, count |-> 1],
     [key |-> "battleship", name |-> "Battleship", size |-> 4, count |-> 1],
     [key |-> "cruiser",    name |-> "Cruiser",    size |-> 3, count |-> 1],
     [key |-> "submarine",  name |-> "Submarine",  size |-> 3, count |-> 1],
     [key |-> "destroyer",  name |-> "Destroyer",  size |-> 2, count |-> 1] >>

LOBBY == "lobby"
PLACING == "placing"
IN_PROGRESS == "in-progress"
FINISHED == "finished"
PHASES == {LOBBY, PLACING, IN_PROGRESS, FINISHED}

Null == 0
NullName == "null"
Seats == {1, 2}
Sockets == 1..NumSockets

\* const other = slot === 1 ? 2 : 1
Other(pn) == IF pn = 1 THEN 2 ELSE 1

\* `${r},${c}`
Key(r, c) == <<r, c>>

\* `Player ${slot}`
PlayerName(slot) == IF slot = 1 THEN "Player 1" ELSE "Player 2"

EmptyMap == <<>>

mkPlayerState ==
  [socketId |-> Null, name |-> NullName, ready |-> FALSE,
   board |-> EmptyMap, ships |-> EmptyMap, shotsTaken |-> {}]

initialState ==
  [phase |-> LOBBY, players |-> [pn \in Seats |-> mkPlayerState],
   turn |-> Null, winner |-> Null]

\* the state object the handlers read
State == [phase |-> phase, players |-> players, turn |-> turn, winner |-> winner]

-----------------------------------------------------------------------------
\* Messages: io.emit reaches everyone, socket.emit / io.to(id).emit one socket

Everyone == 0
Msg(ev, to, body) == [ev |-> ev, to |-> to, body |-> body]

scrubPlayer(st, pn) ==
  [connected |-> st.players[pn].socketId # Null,
   ready |-> st.players[pn].ready,
   name |-> st.players[pn].name]

publicState(st) ==
  [phase |-> st.phase, turn |-> st.turn, winner |-> st.winner,
   players |-> [pn \in Seats |-> scrubPlayer(st, pn)]]

broadcast(st) == << Msg("state", Everyone, publicState(st)) >>

summarizeShips(ships) ==
  [id \in DOMAIN ships |->
     [name |-> ships[id].name, size |-> ships[id].size, hits |-> ships[id].hits]]

\* oppShots with the seats mixed up: what the opponent shot
oppShotsOfOpponent(st, viewer) == st.players[Other(viewer)].shotsTaken

\* const oppShots = state.players[viewer].shotsTaken; // what I shot
oppShots(st, viewer) == st.players[viewer].shotsTaken

\* the fog board: only the results of the viewer's own shots
oppBoardPublic(st, viewer) ==
  LET oppBoard == st.players[Other(viewer)].board
  IN  [shot \in oppShots(st, viewer) |->
         IF shot \in DOMAIN oppBoard /\ oppBoard[shot].hit
           THEN [result |-> "H"]
           ELSE [result |-> "M"]]

boardsFor(st, viewer) ==
  Msg("boards", st.players[viewer].socketId,
      [you |-> [board |-> st.players[viewer].board,
                ships |-> summarizeShips(st.players[viewer].ships)],
       opponent |-> [fog |-> oppBoardPublic(st, viewer)]])

sendPrivateBoards(st) ==
  (IF st.players[1].socketId # Null THEN << boardsFor(st, 1) >> ELSE << >>)
  \o (IF st.players[2].socketId # Null THEN << boardsFor(st, 2) >> ELSE << >>)

-----------------------------------------------------------------------------
\* Placement validation

\* a ship descriptor of a placeShips payload, as the client builds it
Ship(key, name, cells) ==
  [isObject |-> TRUE, key |-> key, name |-> name, cellsIsArray |-> TRUE, cells |-> cells]

\* a payload that is an array of the given items
Fleet(items) == [isArray |-> TRUE, items |-> items]

ShipKeys == {SHIP_DEFS[i].key : i \in DOMAIN SHIP_DEFS}

\* const required = {}; for (const d of SHIP_DEFS) required[d.key] = d.size;
\* required[key] of an unknown key is undefined, which is falsy like 0
required(key) ==
  IF key \in ShipKeys
    THEN LET i == CHOOSE j \in DOMAIN SHIP_DEFS :
                    /\ SHIP_DEFS[j].key = key
                    /\ \A k \in DOMAIN SHIP_DEFS : SHIP_DEFS[k].key = key => k <= j
         IN  SHIP_DEFS[i].size
    ELSE 0

Fail(msg) == [ok |-> FALSE, msg |-> msg]
Ok == [ok |-> TRUE, msg |-> << >>]

\* `${name || key}`
NameOrKey(ship) == IF ship.name # "" THEN ship.name ELSE ship.key

\* boundsAndDuplicates with the upper bounds off by one (> for >=)
RECURSIVE boundsAndDuplicatesOffByOne(_, _, _)
boundsAndDuplicatesOffByOne(cells, i, occupied) ==
  IF i > Len(cells) THEN [ok |-> TRUE, msg |-> << >>, occupied |-> occupied]
  ELSE LET r == cells[i].r
           c == cells[i].c
           k == Key(r, c)
       IN  IF r < 0 \/ r > BOARD_SIZE \/ c < 0 \/ c > BOARD_SIZE
             THEN [ok |-> FALSE, msg |-> << "Placement out of bounds." >>,
                   occupied |-> occupied]
           ELSE IF k \in occupied
             THEN [ok |-> FALSE, msg |-> << "Ships cannot overlap." >>,
                   occupied |-> occupied]
           ELSE boundsAndDuplicatesOffByOne(cells, i + 1, occupied \cup {k})

\* the bounds & duplicates loop over one ship's cells; occupied is shared by
\* the whole payload
RECURSIVE boundsAndDuplicates(_, _, _)
boundsAndDuplicates(cells, i, occupied) ==
  IF i > Len(cells) THEN [ok |-> TRUE, msg |-> << >>, occupied |-> occupied]
  ELSE LET r == cells[i].r
           c == cells[i].c
           k == Key(r, c)
       IN  IF r < 0 \/ r >= BOARD_SIZE \/ c < 0 \/ c >= BOARD_SIZE
             THEN [ok |-> FALSE, msg |-> << "Placement out of bounds." >>,
                   occupied |-> occupied]
           ELSE IF k \in occupied
             THEN [ok |-> FALSE, msg |-> << "Ships cannot overlap." >>,
                   occupied |-> occupied]
           ELSE boundsAndDuplicates(cells, i + 1, occupied \cup {k})

\* (a, b) => (sameRow ? a.c - b.c : a.r - b.r)
compareCells(a, b, sameRow) == IF sameRow THEN a.c - b.c ELSE a.r - b.r

\* cells.slice().sort(cmp): a stable sort, here by insertion
RECURSIVE insertCell(_, _, _)
insertCell(sorted, x, sameRow) ==
  IF sorted = << >> THEN << x >>
  ELSE IF compareCells(Head(sorted), x, sameRow) <= 0
    THEN << Head(sorted) >> \o insertCell(Tail(sorted), x, sameRow)
    ELSE << x >> \o sorted

RECURSIVE sortCells(_, _, _, _)
sortCells(cells, i, acc, sameRow) ==
  IF i > Len(cells) THEN acc
  ELSE sortCells(cells, i + 1, insertCell(acc, cells[i], sameRow), sameRow)

\* the contiguity loop: true when it returns 'Gaps in ship cells.'
hasGaps(sorted, sameRow, sameCol) ==
  \E i \in 2..Len(sorted) :
     \/ sameRow /\ sorted[i].c # sorted[i - 1].c + 1
     \/ sameCol /\ sorted[i].r # sorted[i - 1].r + 1

\* the final loop over SHIP_DEFS: the first required key that was not seen
missingKey(seenKeys) ==
  LET miss == {i \in DOMAIN SHIP_DEFS : SHIP_DEFS[i].key \notin seenKeys}
  IN  IF miss = {} THEN Ok
      ELSE LET i == CHOOSE j \in miss : \A k \in miss : j <= k
           IN  Fail(<< "Missing ship: ", SHIP_DEFS[i].key >>)

\* the loop `for (const ship of payload)`, from ship number i on
RECURSIVE validateShips(_, _, _, _)
validateShips(items, i, seenKeys, occupied) ==
  IF i > Len(items) THEN missingKey(seenKeys)
  ELSE
    LET ship == items[i] IN
    IF ~ship.isObject THEN Fail(<< "Invalid ship object." >>)
    ELSE IF required(ship.key) = 0 THEN Fail(<< "Unexpected ship key: ", ship.key >>)
    ELSE IF ship.key \in seenKeys THEN Fail(<< "Duplicate ship: ", ship.key >>)
    ELSE IF ~ship.cellsIsArray \/ Len(ship.cells) # required(ship.key)
      THEN Fail(<< NameOrKey(ship), " has incorrect size." >>)
    ELSE
      LET cells == ship.cells
          sameRow == \A j \in DOMAIN cells : cells[j].r = cells[1].r
          sameCol == \A j \in DOMAIN cells : cells[j].c = cells[1].c
      IN
      IF ~sameRow /\ ~sameCol THEN Fail(<< NameOrKey(ship), " must be straight." >>)
      ELSE
        LET bd == boundsAndDuplicates(cells, 1, occupied) IN
        IF ~bd.ok THEN Fail(bd.msg)
        ELSE IF hasGaps(sortCells(cells, 1, << >>, sameRow), sameRow, sameCol)
          THEN Fail(<< "Gaps in ship cells." >>)
        ELSE validateShips(items, i + 1, seenKeys \cup {ship.key}, bd.occupied)

validatePlacement(pl) ==
  IF ~pl.isArray THEN Fail(<< "Invalid placement format." >>)
  ELSE validateShips(pl.items, 1, {}, {})

\* the cells of one ship written to the board, later cells over earlier ones
RECURSIVE placeCells(_, _, _, _)
placeCells(board, shipId, cells, i) ==
  IF i > Len(cells) THEN board
  ELSE placeCells((Key(cells[i].r, cells[i].c) :> [shipId |-> shipId, hit |-> FALSE])
                    @@ board,
                  shipId, cells, i + 1)

\* the loop of setPlacementForPlayer over the ships, from empty board and ships
RECURSIVE placeShipsLoop(_, _, _, _)
placeShipsLoop(items, i, board, ships) ==
  IF i > Len(items) THEN [board |-> board, ships |-> ships]
  ELSE LET ship == items[i]
           shipId == ship.key
       IN  placeShipsLoop(items, i + 1,
             placeCells(board, shipId, ship.cells, 1),
             (shipId :> [name |-> ship.name, size |-> Len(ship.cells), hits |-> {}])
               @@ ships)

\* clearedBoard without the reset: the new ships are laid over the old board
keptBoard(p) == p.board

\* the board the placement starts from: p.board = {}
clearedBoard(p) == EmptyMap

\* setPlacementForPlayer: the seat's player state after the call, and its result
setPlacementForPlayer(p, pl) ==
  LET valid == validatePlacement(pl) IN
  IF ~valid.ok THEN [res |-> valid, player |-> p]
  ELSE LET placed == placeShipsLoop(pl.items, 1, clearedBoard(p), EmptyMap)
       IN  [res |-> Ok,
            player |-> [p EXCEPT !.board = placed.board, !.ships = placed.ships]]

allShipsSunk(st, pn) ==
  \A id \in DOMAIN st.players[pn].ships :
     Cardinality(st.players[pn].ships[id].hits) = st.players[pn].ships[id].size

-----------------------------------------------------------------------------
\* The handlers.  Each takes the state object st and the event, and yields
\* the state after the handler and the messages it emitted, in order.

Notice(s, type, text) == Msg("notice", s, [type |-> type, text |-> text])

Done(st, msgs) == [st |-> st, out |-> msgs]

\* the occupancy test that is content with one bound seat
oneSeated(pl) == pl[1].socketId # Null \/ pl[2].socketId # Null

\* state.players[1].socketId && state.players[2].socketId
bothSeated(pl) == pl[1].socketId # Null /\ pl[2].socketId # Null

\* the move to another seat that leaves the old seat as it was
keepOther(pl, s, other) == pl

\* if (state.players[other].socketId === socket.id)
\*   state.players[other] = mkPlayerState();
vacateOther(pl, s, other) ==
  IF pl[other].socketId = s THEN [pl EXCEPT ![other] = mkPlayerState] ELSE pl

\* the taken-seat check that lets everybody in
seatNeverTaken(st, s, slot) == FALSE

\* state.players[slot].socketId && state.players[slot].socketId !== socket.id
seatTaken(st, s, slot) ==
  st.players[slot].socketId # Null /\ st.players[slot].socketId # s

\* socket.on('join', ({ slot }) => ...)
join(st, s, slot) ==
  IF slot # 1 /\ slot # 2 THEN Done(st, << >>)
  ELSE
    LET other == Other(slot) IN
    IF seatTaken(st, s, slot)
      THEN Done(st, << Notice(s, "error", << "That slot is already taken." >>) >>)
    ELSE
      LET vacated == vacateOther(st.players, s, other)
          seated == [vacated EXCEPT ![slot].socketId = s,
                                    ![slot].name = PlayerName(slot),
                                    ![slot].ready = FALSE,
                                    ![slot].board = EmptyMap,
                                    ![slot].ships = EmptyMap,
                                    ![slot].shotsTaken = {}]
          ph == IF st.phase = LOBBY /\ bothSeated(seated)
                  THEN PLACING ELSE st.phase
          st2 == [st EXCEPT !.players = seated, !.phase = ph]
      IN  Done(st2, << Msg("joined", s, [slot |-> slot]) >>
                      \o broadcast(st2) \o sendPrivateBoards(st2))

\* socket.on('placeShips', ({ slot, ships }) => ...)
placeShips(st, s, slot, ships) ==
  IF slot # 1 /\ slot # 2 THEN Done(st, << >>)
  ELSE IF st.players[slot].socketId # s THEN Done(st, << >>)
  ELSE IF st.phase # PLACING /\ st.phase # LOBBY THEN Done(st, << >>)
  ELSE
    LET set == setPlacementForPlayer(st.players[slot], ships) IN
    IF ~set.res.ok THEN Done(st, << Notice(s, "error", set.res.msg) >>)
    ELSE
      LET st2 == [st EXCEPT !.players[slot] = [set.player EXCEPT !.ready = FALSE]]
      IN  Done(st2, broadcast(st2) \o sendPrivateBoards(st2)
                      \o << Notice(s, "ok", << "Placement saved." >>) >>)

\* the fleet check that lets any fleet pass
anyFleet(st, slot) == TRUE

\* Object.keys(state.players[pn].ships).length === SHIP_DEFS.length
allShipsPlaced(st, slot) ==
  Cardinality(DOMAIN st.players[slot].ships) = Len(SHIP_DEFS)

\* socket.on('ready', ({ slot }) => ...); rnd is Math.random() < 0.5 ? 1 : 2
ready(st, s, slot, rnd) ==
  IF slot # 1 /\ slot # 2 THEN Done(st, << >>)
  ELSE IF st.players[slot].socketId # s THEN Done(st, << >>)
  ELSE IF ~allShipsPlaced(st, slot)
    THEN Done(st, << Notice(s, "error", << "Place all ships first." >>) >>)
  ELSE
    LET st1 == [st EXCEPT !.players[slot].ready = TRUE]
        st2 == IF st1.players[1].ready /\ st1.players[2].ready
                 THEN [st1 EXCEPT !.phase = IN_PROGRESS, !.turn = rnd]
                 ELSE st1
    IN  Done(st2, broadcast(st2) \o sendPrivateBoards(st2))

\* the shot resolved with the hit flagged on the board only: the ship's hit
\* set stays as it was
resolveShotFlagOnly(target, key) ==
  IF key \in DOMAIN target.board /\ ~target.board[key].hit
    THEN [target |-> [target EXCEPT !.board[key].hit = TRUE],
          result |-> "hit", sunkShip |-> NullName]
  ELSE IF key \in DOMAIN target.board
    THEN [target |-> target, result |-> "hit", sunkShip |-> NullName]
  ELSE [target |-> target, result |-> "miss", sunkShip |-> NullName]

\* the shot at key resolved on the target's player state: the state after it,
\* the result and the name of the ship it sank (NullName when none)
resolveShot(target, key) ==
  IF key \in DOMAIN target.board /\ ~target.board[key].hit
    THEN LET shipId == target.board[key].shipId
             hits == target.ships[shipId].hits \cup {key}
         IN  [target |-> [target EXCEPT !.board[key].hit = TRUE,
                                        !.ships[shipId].hits = hits],
              result |-> "hit",
              sunkShip |-> IF Cardinality(hits) = target.ships[shipId].size
                             THEN target.ships[shipId].name ELSE NullName]
  ELSE IF key \in DOMAIN target.board /\ target.board[key].hit
    THEN [target |-> target, result |-> "hit", sunkShip |-> NullName]
  ELSE [target |-> target, result |-> "miss", sunkShip |-> NullName]

\* the shot history check with no memory: no coordinate counts as fired at
neverFired(st, slot, key) == FALSE

\* shooter.shotsTaken.has(key)
alreadyFired(st, slot, key) == key \in st.players[slot].shotsTaken

\* socket.on('fire', ({ slot, r, c }) => ...)
fire(st, s, slot, r, c) ==
  IF st.phase # IN_PROGRESS THEN Done(st, << >>)
  ELSE IF slot # 1 /\ slot # 2 THEN Done(st, << >>)
  ELSE IF st.players[slot].socketId # s THEN Done(st, << >>)
  ELSE IF st.turn # slot THEN Done(st, << >>)
  ELSE
    LET oppn == Other(slot)
        key == Key(r, c)
    IN
    IF alreadyFired(st, slot, key)
      THEN Done(st, << Notice(s, "error", << "You already fired there." >>) >>)
    ELSE
      LET shot == resolveShot(st.players[oppn], key)
          st1 == [st EXCEPT !.players[slot].shotsTaken = @ \cup {key},
                            !.players[oppn] = shot.target]
          st2 == IF allShipsSunk(st1, oppn)
                   THEN [st1 EXCEPT !.phase = FINISHED, !.winner = slot]
                   ELSE [st1 EXCEPT !.turn = oppn]
      IN  Done(st2,
               << Msg("shotResult", Everyone,
                      [by |-> slot, at |-> [r |-> r, c |-> c],
                       result |-> shot.result, sunkShip |-> shot.sunkShip,
                       nextTurn |-> st2.turn, phase |-> st2.phase,
                       winner |-> st2.winner]) >>
               \o sendPrivateBoards(st2) \o broadcast(st2))

\* a chat text: its length, and whether it is all whitespace
Text(len, blank) == [len |-> len, blank |-> blank]

maxLen == 400

\* socket.on('chat', ({ from, text }) => ...)
chat(st, s, from, text) ==
  LET clean == Text(IF text.len < maxLen THEN text.len ELSE maxLen, text.blank)
      label == IF st.players[2].socketId = s THEN "Player 2"
               ELSE IF st.players[1].socketId = s THEN "Player 1"
               ELSE "Spectator"
  IN  IF clean.len = 0 \/ clean.blank THEN Done(st, << >>)
      ELSE Done(st, << Msg("chat", Everyone,
                           [from |-> IF from # "" THEN from ELSE label,
                            text |-> clean]) >>)

\* the seats after a reset that also keeps the shot histories
keptSeatsWithShots(st) ==
  [pn \in Seats |->
     [mkPlayerState EXCEPT !.socketId = st.players[pn].socketId,
                           !.name = st.players[pn].name,
                           !.shotsTaken = st.players[pn].shotsTaken]]

\* keep connections & names: the seats of initialState() with the previous
\* socketId and name
keptSeats(st) ==
  [pn \in Seats |->
     [mkPlayerState EXCEPT !.socketId = st.players[pn].socketId,
                           !.name = st.players[pn].name]]

resetGame(st) ==
  LET kept == keptSeats(st)
      ph == IF kept[1].socketId = Null \/ kept[2].socketId = Null
              THEN LOBBY ELSE PLACING
      st2 == [initialState EXCEPT !.players = kept, !.phase = ph]
  IN  Done(st2, broadcast(st2))

\* socket.on('reset', () => ...)
reset(st, s) ==
  IF \E pn \in Seats : st.players[pn].socketId = s THEN resetGame(st)
  ELSE Done(st, << >>)

\* the freeing of a seat that unbinds the connection and keeps the rest
freeSeatsKeepFleet(pl, s) ==
  [pn \in Seats |->
     IF pl[pn].socketId = s THEN [pl[pn] EXCEPT !.socketId = Null, !.name = NullName]
     ELSE pl[pn]]

\* for (const pn of [1, 2])
\*   if (state.players[pn].socketId === socket.id) state.players[pn] = mkPlayerState();
freeSeats(pl, s) ==
  [pn \in Seats |-> IF pl[pn].socketId = s THEN mkPlayerState ELSE pl[pn]]

\* socket.on('disconnect', () => ...)
disconnect(st, s) ==
  LET freed == freeSeats(st.players, s)
      st1 == [st EXCEPT !.players = freed]
      st2 == IF freed[1].socketId = Null \/ freed[2].socketId = Null
               THEN [st1 EXCEPT !.phase = LOBBY, !.turn = Null, !.winner = Null]
               ELSE st1
  IN  Done(st2, broadcast(st2))

\* io.on('connection', (socket) => ...): the greeting
connection(st, s) ==
  Done(st, << Msg("hello", s, [msg |-> "Welcome to Battleships!"]),
              Msg("state", s, publicState(st)) >>)

-----------------------------------------------------------------------------
\* What the clients send

HRun(r, c0, n) == [i \in 1..n |-> [r |-> r, c |-> c0 + i - 1]]
VRun(r0, c, n) == [i \in 1..n |-> [r |-> r0 + i - 1, c |-> c]]

\* every ship horizontal, ship i in row i - 1 from column 0
LayoutA ==
  Fleet([i \in DOMAIN SHIP_DEFS |->
           Ship(SHIP_DEFS[i].key, SHIP_DEFS[i].name, HRun(i - 1, 0, SHIP_DEFS[i].size))])

\* every ship vertical, ship i in column i - 1 from row 0
LayoutB ==
  Fleet([i \in DOMAIN SHIP_DEFS |->
           Ship(SHIP_DEFS[i].key, SHIP_DEFS[i].name, VRun(0, i - 1, SHIP_DEFS[i].size))])

\* LayoutA from a client that sends { key, cells } without a name
LayoutUnnamed ==
  Fleet([i \in DOMAIN SHIP_DEFS |->
           Ship(SHIP_DEFS[i].key, "", HRun(i - 1, 0, SHIP_DEFS[i].size))])

\* LayoutA with the destroyer laid over the end of the cruiser
LayoutOverlap ==
  Fleet([i \in DOMAIN SHIP_DEFS |->
           IF SHIP_DEFS[i].key = "destroyer"
             THEN Ship("destroyer", "Destroyer", HRun(2, 2, 2))
             ELSE LayoutA.items[i]])

\* the carrier alone
LayoutCarrierOnly == Fleet(<< LayoutA.items[1] >>)

NotAnArray == [isArray |-> FALSE, items |-> << >>]

PlacementInputs == {LayoutA, LayoutB, LayoutOverlap}

SlotInputs == {1, 2, 3}

\* cells clients fire at: a cell of LayoutA's destroyer that is also a cell of
\* LayoutB's carrier, a cell off the grid, the other cell of LayoutA's
\* destroyer (open water of LayoutB), open water, and the two cells of
\* LayoutB's destroyer
FireCandidates ==
  << <<4, 0>>, <<10, 0>>, <<4, 1>>, <<9, 9>>, <<0, 4>>, <<1, 4>> >>

FireCells ==
  {FireCandidates[i] : i \in {j \in DOMAIN FireCandidates : j <= NumFireCells}}

ChatFroms == {""}
ChatTexts == {Text(401, FALSE), Text(2, TRUE)}

RECURSIVE CellsFrom(_, _)
CellsFrom(items, i) ==
  IF i > Len(items) THEN << >> ELSE items[i].cells \o CellsFrom(items, i + 1)

CellKeys(pl) == {Key(CellsFrom(pl.items, 1)[i].r, CellsFrom(pl.items, 1)[i].c) :
                   i \in DOMAIN CellsFrom(pl.items, 1)}

NotInLayoutA(cell) == Key(cell.r, cell.c) \notin CellKeys(LayoutA)

\* the order in which the clients of SpecMatch work through a board: the
\* cells of LayoutA ship by ship, then the cells of LayoutB not among them
ScanOrder ==
  CellsFrom(LayoutA.items, 1) \o SelectSeq(CellsFrom(LayoutB.items, 1), NotInLayoutA)

\* the next cell of ScanOrder the seat has not fired at
NextScan(pn) ==
  LET left == {i \in DOMAIN ScanOrder :
                 Key(ScanOrder[i].r, ScanOrder[i].c) \notin players[pn].shotsTaken}
  IN  IF left = {} THEN {}
      ELSE {ScanOrder[CHOOSE i \in left : \A j \in left : i <= j]}

-----------------------------------------------------------------------------
\* The actions: one per handler

NoPayload == Fleet(<< >>)
NotRun == Fail(<< "not validated" >>)

ShotAccepted(msgs) == \E i \in DOMAIN msgs : msgs[i].ev = "shotResult"

\* the state becomes the one the handler left; its messages go to the sockets
Apply(res, shooter) ==
  \E r \in {res} :
    /\ phase' = r.st.phase
    /\ players' = r.st.players
    /\ turn' = r.st.turn
    /\ winner' = r.st.winner
    /\ lastShooter' =
         IF r.st.phase # IN_PROGRESS THEN Null
         ELSE IF shooter # Null THEN shooter
         ELSE IF phase # IN_PROGRESS THEN Null
         ELSE lastShooter
    /\ UNCHANGED <<payload, verdict>>

Seated(s) == \E pn \in Seats : players[pn].socketId = s

\* The server keeps a socket id only in a seat's socketId, so connections that
\* hold no seat are all alike to it: one id stands for them, the least id no
\* seat is bound to.
Fresh == CHOOSE s \in Sockets : ~Seated(s) /\ \A t \in Sockets : ~Seated(t) => s <= t

\* the connections whose events arrive
Live == {s \in Sockets : Seated(s)} \cup {Fresh}

\* a new connection: it holds no seat
Connect(s) ==
  /\ s = Fresh
  /\ Apply(connection(State, s), Null)

Join(s, slot) ==
  /\ Apply(join(State, s, slot), Null)

PlaceShips(s, slot, ships) ==
  /\ Apply(placeShips(State, s, slot, ships), Null)

Ready(s, slot, rnd) ==
  /\ Apply(ready(State, s, slot, rnd), Null)

Fire(s, slot, r, c) ==
  /\ \E res \in {fire(State, s, slot, r, c)} :
       Apply(res, IF ShotAccepted(res.out) THEN slot ELSE Null)

Chat(s, from, text) ==
  /\ Apply(chat(State, s, from, text), Null)

Reset(s) ==
  /\ Apply(reset(State, s), Null)

Disconnect(s) ==
  /\ Apply(disconnect(State, s), Null)

\* let state = initialState()
Init ==
  /\ phase = initialState.phase
  /\ players = initialState.players
  /\ turn = initialState.turn
  /\ winner = initialState.winner
  /\ lastShooter = Null
  /\ payload = NoPayload
  /\ verdict = NotRun

\* every event, from every connection, with every input
Next ==
  \/ \E s \in Live : Connect(s)
  \/ \E s \in Live, slot \in SlotInputs : Join(s, slot)
  \/ \E s \in Live, slot \in SlotInputs, ships \in PlacementInputs :
       PlaceShips(s, slot, ships)
  \/ \E s \in Live, slot \in SlotInputs, rnd \in Seats : Ready(s, slot, rnd)
  \/ \E s \in Live, slot \in SlotInputs, cell \in FireCells :
       Fire(s, slot, cell[1], cell[2])
  \/ \E s \in Live, from \in ChatFroms, text \in ChatTexts : Chat(s, from, text)
  \/ \E s \in Live : Reset(s)
  \/ \E s \in Live : Disconnect(s)

Spec == Init /\ [][Next]_vars

\* whole matches: connections that take a seat while they hold none, submit
\* a legal fleet, press ready before a match or after it, and fire along
\* ScanOrder
NextMatch ==
  \/ \E s \in Live : Connect(s)
  \/ \E s \in Live, slot \in Seats : ~Seated(s) /\ Join(s, slot)
  \/ \E s \in Live, slot \in Seats, ships \in {LayoutA, LayoutB, LayoutUnnamed} :
       PlaceShips(s, slot, ships)
  \/ \E s \in Live, slot \in Seats, rnd \in Seats :
       phase # IN_PROGRESS /\ Ready(s, slot, rnd)
  \/ \E s \in Live, slot \in Seats :
       \E cell \in NextScan(slot) : Fire(s, slot, cell.r, cell.c)

SpecMatch == Init /\ [][NextMatch]_vars

-----------------------------------------------------------------------------
\* The placement validator on its own: one submission, validated once

\* the cell lists SpecValidate submits for ship i (the ship of SHIP_DEFS[i])
Variant(i, v) ==
  LET n == SHIP_DEFS[i].size
      row == i - 1
  IN  CASE v = 1 -> HRun(row, 0, n)
        [] v = 2 -> VRun(0, row, n)
        [] v = 3 -> [k \in 1..n |-> HRun(row, 5, n)[n + 1 - k]]
        [] v = 4 -> HRun(row, 0, n - 1) \o << [r |-> row, c |-> n] >>
        [] v = 5 -> HRun(row, BOARD_SIZE - n + 1, n)
        [] v = 6 -> HRun(row, 0, n - 1)
        [] v = 7 -> HRun(row, 0, n - 1) \o << [r |-> row + 5, c |-> n - 1] >>
        [] v = 8 -> HRun(row, 0, n - 1) \o << [r |-> row, c |-> 0] >>
        [] v = 9 -> VRun(-1, row, n)
        [] OTHER -> Tail(VRun(5, 9 - row, n)) \o << [r |-> 5, c |-> 9 - row] >>

VariantFleets ==
  {Fleet([i \in DOMAIN SHIP_DEFS |->
            Ship(SHIP_DEFS[i].key, SHIP_DEFS[i].name, Variant(i, f[i]))]) :
     f \in [DOMAIN SHIP_DEFS -> 1..NumVariants]}

\* LayoutA without its ship number k
Without(k) == Fleet(SubSeq(LayoutA.items, 1, k - 1)
                      \o SubSeq(LayoutA.items, k + 1, Len(LayoutA.items)))

OddFleets ==
  {Without(k) : k \in DOMAIN SHIP_DEFS}
  \cup {Fleet(Without(k).items \o << LayoutA.items[k] >>) : k \in DOMAIN SHIP_DEFS}
  \cup {Fleet(LayoutA.items \o << LayoutB.items[k] >>) : k \in DOMAIN SHIP_DEFS}
  \cup {Fleet(LayoutA.items \o << Ship("tugboat", "Tugboat", HRun(9, 0, 2)) >>),
        Fleet(Without(5).items \o << Ship("tugboat", "", HRun(4, 0, 2)) >>),
        Fleet(Without(5).items \o << Ship("destroyer", "", HRun(4, 0, 3)) >>),
        Fleet(Without(5).items \o << [LayoutA.items[5] EXCEPT !.isObject = FALSE] >>),
        Fleet(Without(5).items \o << [LayoutA.items[5] EXCEPT !.cellsIsArray = FALSE] >>),
        Fleet(<< >>), LayoutCarrierOnly, LayoutOverlap, NotAnArray}

Submissions == VariantFleets \cup OddFleets

InitValidate ==
  /\ phase = initialState.phase
  /\ players = initialState.players
  /\ turn = initialState.turn
  /\ winner = initialState.winner
  /\ lastShooter = Null
  /\ payload \in Submissions
  /\ verdict = NotRun

Validate ==
  /\ verdict = NotRun
  /\ verdict' = validatePlacement(payload)
  /\ UNCHANGED <<gameVars, payload>>

NextValidate == Validate

SpecValidate == InitValidate /\ [][NextValidate]_vars

-----------------------------------------------------------------------------
\* Properties

\* P holds of what every handler does with every event that can arrive now
EveryEvent(P(_)) ==
  /\ \A s \in Live :
       /\ s = Fresh => P(connection(State, s))
       /\ \A slot \in SlotInputs :
            /\ P(join(State, s, slot))
            /\ \A ships \in PlacementInputs : P(placeShips(State, s, slot, ships))
            /\ \A rnd \in Seats : P(ready(State, s, slot, rnd))
            /\ \A cell \in FireCells : P(fire(State, s, slot, cell[1], cell[2]))
       /\ \A slot \in Seats :
            \A cell \in NextScan(slot) : P(fire(State, s, slot, cell.r, cell.c))
       /\ \A from \in ChatFroms, text \in ChatTexts : P(chat(State, s, from, text))
       /\ P(reset(State, s))
       /\ P(disconnect(State, s))

\* P holds of what some handler does with some event that can arrive now
SomeEvent(P(_)) ==
  \/ \E s \in Live :
       \/ s = Fresh /\ P(connection(State, s))
       \/ \E slot \in SlotInputs :
            \/ P(join(State, s, slot))
            \/ \E ships \in PlacementInputs : P(placeShips(State, s, slot, ships))
            \/ \E rnd \in Seats : P(ready(State, s, slot, rnd))
            \/ \E cell \in FireCells : P(fire(State, s, slot, cell[1], cell[2]))
       \/ \E slot \in Seats :
            \E cell \in NextScan(slot) : P(fire(State, s, slot, cell.r, cell.c))
       \/ \E from \in ChatFroms, text \in ChatTexts : P(chat(State, s, from, text))
       \/ P(reset(State, s))
       \/ P(disconnect(State, s))

\* the 'boards' messages of a handler's emissions that go to the connection
\* seated at v in the state the handler leaves
BoardsTo(r, v) ==
  {i \in DOMAIN r.out : /\ r.out[i].ev = "boards"
                        /\ r.st.players[v].socketId # Null
                        /\ r.out[i].to = r.st.players[v].socketId}

FogOnlyOwnShots(r) ==
  \A v \in Seats : \A i \in BoardsTo(r, v) :
     r.st.phase # FINISHED =>
       LET opp == r.out[i].body.opponent
       IN  /\ DOMAIN opp = {"fog"}
           /\ DOMAIN opp.fog \subseteq r.st.players[v].shotsTaken
           /\ \A k \in DOMAIN opp.fog :
                opp.fog[k] \in {[result |-> "H"], [result |-> "M"]}

\* C1: while the phase is not FINISHED, every 'boards' payload sent to the
\* connection seated at V has an opponent part that is a fog map only, whose
\* coordinates all lie in V's own shot history and whose entries say only hit
\* or miss: no kind or position of an opponent cell V has not fired at.
C1_FogOnlyOwnShots == EveryEvent(FogOnlyOwnShots)

FogHidesCells(r) ==
  /\ r.st.phase = IN_PROGRESS
  /\ ShotAccepted(r.out)
  /\ \E v \in Seats : \E i \in BoardsTo(r, v) :
       /\ DOMAIN r.out[i].body.opponent.fog # {}
       /\ r.st.players[Other(v)].shotsTaken \ r.st.players[v].shotsTaken # {}
       /\ DOMAIN r.st.players[Other(v)].board \ r.st.players[v].shotsTaken # {}

\* C1 witness: a shot is accepted in a running match and the viewer gets a
\* non-empty fog while the opponent holds cells, and has fired at cells, that
\* the viewer has not fired at.
C1_Witness == SomeEvent(FogHidesCells)

FullBoardOnceFinished(r) ==
  \A v \in Seats : \A i \in BoardsTo(r, v) :
     LET opp == r.out[i].body.opponent
         foe == r.st.players[Other(v)]
     IN  IF r.st.phase = FINISHED
           THEN /\ "full" \in DOMAIN opp
                /\ opp.full = foe.board
                /\ "ships" \in DOMAIN opp
                /\ opp.ships = summarizeShips(foe.ships)
           ELSE "full" \notin DOMAIN opp

\* C2: once the phase is FINISHED, every 'boards' payload carries the
\* opponent's full board and fleet summary instead of the fog; before
\* FINISHED none does.
C2_FullBoardOnceFinished == EveryEvent(FullBoardOnceFinished)

\* C3: every phase change is LOBBY to PLACING, PLACING to IN_PROGRESS,
\* IN_PROGRESS to FINISHED, a return to LOBBY with a seat vacant, or a reset.
C3_PhaseChangesLegal ==
  [][phase' # phase =>
       \/ phase = LOBBY /\ phase' = PLACING
       \/ phase = PLACING /\ phase' = IN_PROGRESS
       \/ phase = IN_PROGRESS /\ phase' = FINISHED
       \/ phase' = LOBBY /\ \E pn \in Seats : players'[pn].socketId = Null
       \/ \E s \in Live : Reset(s)]_vars

\* C4: turn is a seat label if and only if the phase is IN_PROGRESS.
C4_TurnIffInProgress == (turn \in Seats) <=> (phase = IN_PROGRESS)

\* C5: winner is a seat label if and only if the phase is FINISHED.
C5_WinnerIffFinished == (winner \in Seats) <=> (phase = FINISHED)

\* this step is the fire handler accepting seat pn's shot at key
StepIsShot(pn, key) ==
  \E s \in Live :
     /\ ShotAccepted(fire(State, s, pn, key[1], key[2]).out)
     /\ Fire(s, pn, key[1], key[2])

\* C6: an accepted shot that leaves the phase IN_PROGRESS hands the turn to
\* the other seat, and no seat fires two accepted shots of a match in a row.
C6_ShotsAlternate ==
  [][\A pn \in Seats :
       \A key \in players'[pn].shotsTaken \ players[pn].shotsTaken :
          StepIsShot(pn, key) =>
            /\ phase' = IN_PROGRESS => turn' = Other(pn)
            /\ lastShooter # pn]_vars

\* the shot of pn at key is a new hit on the only ship still afloat of a
\* fleet of the five kinds, and it is that ship's last cell
SinksLastShip(pn, key) ==
  LET foe == players[Other(pn)] IN
  /\ DOMAIN foe.ships = {"carrier", "battleship", "cruiser", "submarine", "destroyer"}
  /\ key \in DOMAIN foe.board
  /\ ~foe.board[key].hit
  /\ \A id \in DOMAIN foe.ships :
       Cardinality(foe.ships[id].hits) =
         IF id = foe.board[key].shipId THEN foe.ships[id].size - 1
         ELSE foe.ships[id].size

\* C7: an accepted shot by seat s ends the match with winner s if and only
\* if it sinks the last ship afloat of the opponent's five-ship fleet; every
\* other accepted shot leaves the phase IN_PROGRESS and sets no winner.
C7_FinishIffLastShipSunk ==
  [][\A pn \in Seats :
       \A key \in players'[pn].shotsTaken \ players[pn].shotsTaken :
          StepIsShot(pn, key) =>
            IF SinksLastShip(pn, key)
              THEN phase' = FINISHED /\ winner' = pn
              ELSE phase' = IN_PROGRESS /\ winner' = Null]_vars

\* the sizes the five ship kinds must have
FleetSizes ==
  [carrier |-> 5, battleship |-> 4, cruiser |-> 3, submarine |-> 3, destroyer |-> 2]

\* C8: while the phase is IN_PROGRESS or FINISHED each seat's fleet holds
\* exactly the five kinds with sizes 5, 4, 3, 3, 2 and its board 17 cells.
C8_FleetsCompleteInPlay ==
  phase \in {IN_PROGRESS, FINISHED} =>
    \A pn \in Seats :
       /\ DOMAIN players[pn].ships = DOMAIN FleetSizes
       /\ \A id \in DOMAIN players[pn].ships :
            players[pn].ships[id].size = FleetSizes[id]
       /\ Cardinality(DOMAIN players[pn].board) = 17

\* the cells form a straight run of n cells inside the 10x10 grid
IsRun(cellSet, n) ==
  \E r0 \in 0..9, c0 \in 0..9 :
     \/ c0 + n <= 10 /\ cellSet = {<<r0, c0 + k>> : k \in 0..(n - 1)}
     \/ r0 + n <= 10 /\ cellSet = {<<r0 + k, c0>> : k \in 0..(n - 1)}

CellSet(cells) == {<<cells[j].r, cells[j].c>> : j \in DOMAIN cells}

\* no cell is listed twice, in one ship or in two
NoSharedCell(pl) ==
  \A i, j \in DOMAIN pl.items :
     \A a \in DOMAIN pl.items[i].cells, b \in DOMAIN pl.items[j].cells :
        (i # j \/ a # b) => pl.items[i].cells[a] # pl.items[j].cells[b]

\* the rules of a legal submission, stated on the submission as a whole
LegalPlacement(pl) ==
  /\ pl.isArray
  /\ \A i \in DOMAIN pl.items : pl.items[i].isObject /\ pl.items[i].cellsIsArray
  /\ Len(pl.items) = 5
  /\ {pl.items[i].key : i \in DOMAIN pl.items} = DOMAIN FleetSizes
  /\ \A i \in DOMAIN pl.items :
       /\ Len(pl.items[i].cells) = FleetSizes[pl.items[i].key]
       /\ IsRun(CellSet(pl.items[i].cells), FleetSizes[pl.items[i].key])
  /\ NoSharedCell(pl)

\* C9: validatePlacement accepts a submission if and only if it holds each of
\* the five kinds once and no other, every ship has its kind's size, lies in
\* one row or column inside the grid in a contiguous run, and no cell is used
\* twice; an accepted submission has 17 occupied cells, none shared.
C9_ValidatorAcceptsExactlyLegal ==
  verdict # NotRun =>
    /\ verdict.ok <=> LegalPlacement(payload)
    /\ verdict.ok => Cardinality(CellKeys(payload)) = 17 /\ NoSharedCell(payload)

\* C9 witness: an accepted submission with a ship whose cells are listed in
\* descending order and another ship that is vertical.
C9_Witness ==
  /\ verdict.ok
  /\ \E i \in DOMAIN payload.items :
       payload.items[i].cells[1].c > payload.items[i].cells[2].c
  /\ \E i \in DOMAIN payload.items :
       payload.items[i].cells[1].r < payload.items[i].cells[2].r

\* the board and the fleet that are exactly the submitted layout
BoardOf(pl) ==
  [k \in CellKeys(pl) |->
     [shipId |-> pl.items[CHOOSE i \in DOMAIN pl.items :
                            k \in CellSet(pl.items[i].cells)].key,
      hit |-> FALSE]]

FleetOf(pl) ==
  [id \in {pl.items[i].key : i \in DOMAIN pl.items} |->
     LET i == CHOOSE j \in DOMAIN pl.items : pl.items[j].key = id
     IN  [name |-> pl.items[i].name, size |-> Len(pl.items[i].cells), hits |-> {}]]

\* the legal ones among the submissions C10 tries
LegalFleets == {pl \in PlacementInputs \cup OddFleets : LegalPlacement(pl)}

\* C10: placeShips from the seat's owner in LOBBY or PLACING leaves the seat
\* with exactly the submitted layout, no hit flags and ready false when the
\* submission is legal, and with its board, fleet and ready flag as they were
\* when it is not.
C10_PlacementAllOrNothing ==
  \A s \in Live, slot \in Seats, ships \in PlacementInputs \cup OddFleets :
     (players[slot].socketId = s /\ phase \in {LOBBY, PLACING}) =>
       LET after == placeShips(State, s, slot, ships).st.players[slot]
       IN  IF ships \in LegalFleets
             THEN /\ after.board = BoardOf(ships)
                  /\ after.ships = FleetOf(ships)
                  /\ after.ready = FALSE
             ELSE /\ after.board = players[slot].board
                  /\ after.ships = players[slot].ships
                  /\ after.ready = players[slot].ready

\* C10 witness: a seat that is ready, on a board with a cell flagged hit, in
\* PLACING, whose owner's new legal layout replaces that board.
C10_Witness ==
  \E slot \in Seats :
     /\ phase = PLACING
     /\ players[slot].socketId # Null
     /\ players[slot].ready
     /\ \E k \in DOMAIN players[slot].board : players[slot].board[k].hit
     /\ placeShips(State, players[slot].socketId, slot, LayoutB).st.players[slot].board
          = BoardOf(LayoutB)
     /\ BoardOf(LayoutB) # players[slot].board

\* the four checks a fire event must pass
FireChecks(s, slot, key) ==
  /\ phase = IN_PROGRESS
  /\ slot \in Seats
  /\ players[slot].socketId = s
  /\ turn = slot
  /\ key \notin players[slot].shotsTaken

\* C11: a fire event is accepted only when the phase is IN_PROGRESS, the sender
\* is the connection bound to the claimed seat, turn is that seat and the
\* coordinate is not in the seat's shot history; a fire that fails one of the
\* four leaves the whole game state as it was, in FINISHED as in any phase.
C11_RejectedFireChangesNothing ==
  \A s \in Live, slot \in SlotInputs, cell \in FireCells :
     LET r == fire(State, s, slot, cell[1], cell[2])
     IN  /\ ShotAccepted(r.out) => FireChecks(s, slot, cell)
         /\ ~FireChecks(s, slot, cell) => r.st = State /\ ~ShotAccepted(r.out)

\* C11 witness: in a running match the seat whose turn it is fires again at a
\* coordinate of its own shot history while other coordinates are still open;
\* the state stays as it was.
C11_Witness ==
  \E pn \in Seats :
     /\ players[pn].socketId # Null
     /\ turn = pn
     /\ \E cell \in FireCells :
          /\ cell \in players[pn].shotsTaken
          /\ phase = IN_PROGRESS
          /\ fire(State, players[pn].socketId, pn, cell[1], cell[2]).st = State
     /\ \E cell \in FireCells : cell \notin players[pn].shotsTaken

\* the handler answered with notices to connection s and with nothing else
OnlyNoticeTo(r, s) ==
  /\ r.out # << >>
  /\ \A i \in DOMAIN r.out : r.out[i].ev = "notice" /\ r.out[i].to = s

\* the fleet on file is not the five kinds
FleetIncomplete(pn) == DOMAIN players[pn].ships # ShipKeys

\* C12: a join, placeShips, ready or fire for a seat that is rejected (seat
\* bound to another connection, sender not the seat's connection, wrong
\* phase, illegal fleet, incomplete fleet, out of turn, repeated coordinate)
\* is answered with a notice to the sender only: no 'state', 'boards' or
\* 'shotResult' goes out.
C12_RejectionsGetNoticeOnly ==
  \A s \in Live, slot \in Seats :
     /\ players[slot].socketId \notin {Null, s} =>
          OnlyNoticeTo(join(State, s, slot), s)
     /\ \A ships \in PlacementInputs :
          (\/ players[slot].socketId # s
           \/ phase \notin {LOBBY, PLACING}
           \/ ~validatePlacement(ships).ok) =>
             OnlyNoticeTo(placeShips(State, s, slot, ships), s)
     /\ \A rnd \in Seats :
          (players[slot].socketId # s \/ FleetIncomplete(slot)) =>
             OnlyNoticeTo(ready(State, s, slot, rnd), s)
     /\ \A cell \in FireCells :
          ~FireChecks(s, slot, cell) =>
             OnlyNoticeTo(fire(State, s, slot, cell[1], cell[2]), s)

\* C13: a join for a seat that is bound to another connection is rejected and
\* changes nothing: both seats, the phase, turn and winner stay as they were
\* and no 'joined' goes out.
C13_JoinTakenSeatChangesNothing ==
  \A s \in Live, slot \in Seats :
     players[slot].socketId \notin {Null, s} =>
       LET r == join(State, s, slot)
       IN  /\ r.st = State
           /\ \A i \in DOMAIN r.out : r.out[i].ev # "joined"

\* C13 witness: in a running match the connection seated at one seat asks for
\* the other seat, which is bound to another connection and holds a fleet and
\* a shot history; the join is refused.
C13_Witness ==
  \E slot \in Seats :
     /\ phase = IN_PROGRESS
     /\ players[slot].socketId # Null
     /\ players[Other(slot)].socketId \notin {Null, players[slot].socketId}
     /\ players[slot].shotsTaken # {}
     /\ DOMAIN players[slot].ships # {}
     /\ join(State, players[Other(slot)].socketId, slot).st = State
     /\ OnlyNoticeTo(join(State, players[Other(slot)].socketId, slot),
                     players[Other(slot)].socketId)

\* the seat is fully vacant
Vacant(p) ==
  /\ p.socketId = Null
  /\ p.name = NullName
  /\ p.ready = FALSE
  /\ p.board = << >>
  /\ p.ships = << >>
  /\ p.shotsTaken = {}

\* C14: no connection is bound to both seats; a connection that holds one
\* seat and joins the other, free, seat holds the new seat afterwards and
\* leaves the old one fully vacant.
C14_OneSeatPerConnection ==
  /\ players[1].socketId # Null => players[1].socketId # players[2].socketId
  /\ \A s \in Live, slot \in Seats :
       (players[Other(slot)].socketId = s /\ players[slot].socketId = Null) =>
          LET after == join(State, s, slot).st.players
          IN  /\ after[slot].socketId = s
              /\ Vacant(after[Other(slot)])

\* C14 witness: a seated connection with a fleet, a shot history and a name
\* moves to the other seat, which is free.
C14_Witness ==
  \E slot \in Seats :
     LET old == players[Other(slot)] IN
     /\ old.socketId # Null
     /\ players[slot].socketId = Null
     /\ DOMAIN old.board # {}
     /\ old.shotsTaken # {}
     /\ join(State, old.socketId, slot).st.players[slot].socketId = old.socketId
     /\ Vacant(join(State, old.socketId, slot).st.players[Other(slot)])

\* C15: when the connection bound to a seat disconnects, in any phase, the
\* seat is left fully vacant, the phase is LOBBY, turn and winner are none,
\* and the other seat keeps its connection and its name.
C15_DisconnectVacatesSeat ==
  \A s \in Live, pn \in Seats :
     players[pn].socketId = s =>
       LET after == disconnect(State, s).st
       IN  /\ Vacant(after.players[pn])
           /\ after.phase = LOBBY
           /\ after.turn = Null
           /\ after.winner = Null
           /\ after.players[Other(pn)].socketId = players[Other(pn)].socketId
           /\ after.players[Other(pn)].name = players[Other(pn)].name

\* C15 witness: in a running match with shots fired, a seated connection
\* disconnects while the other seat is bound, and the match is gone.
C15_Witness ==
  \E pn \in Seats :
     /\ phase = IN_PROGRESS
     /\ turn \in Seats
     /\ players[pn].socketId # Null
     /\ players[Other(pn)].socketId # Null
     /\ players[pn].shotsTaken # {}
     /\ \E k \in DOMAIN players[pn].board : players[pn].board[k].hit
     /\ disconnect(State, players[pn].socketId).st.phase = LOBBY
     /\ Vacant(disconnect(State, players[pn].socketId).st.players[pn])

\* C16: a reset from a seated connection keeps both seats' connections and
\* names, empties both boards, fleets and shot histories, sets both ready
\* flags false, clears turn and winner, and sets the phase to PLACING when
\* both seats are bound and to LOBBY otherwise; a reset from a connection
\* without a seat changes nothing.
C16_ResetKeepsSeatsOnly ==
  \A s \in Live :
     LET after == reset(State, s).st IN
     IF Seated(s)
       THEN /\ \A pn \in Seats :
                 /\ after.players[pn].socketId = players[pn].socketId
                 /\ after.players[pn].name = players[pn].name
                 /\ after.players[pn].board = << >>
                 /\ after.players[pn].ships = << >>
                 /\ after.players[pn].shotsTaken = {}
                 /\ after.players[pn].ready = FALSE
            /\ after.turn = Null
            /\ after.winner = Null
            /\ after.phase =
                 IF \A pn \in Seats : players[pn].socketId # Null
                   THEN PLACING ELSE LOBBY
       ELSE after = State

\* C16 witness: a seated connection resets a finished match in which both
\* seats are bound and shots were fired, and the phase becomes PLACING.
C16_Witness ==
  /\ phase = FINISHED
  /\ winner \in Seats
  /\ \A pn \in Seats : players[pn].socketId # Null
  /\ \E pn \in Seats : players[pn].shotsTaken # {} /\ players[pn].ready
  /\ reset(State, players[1].socketId).st.phase = PLACING
  /\ reset(State, players[1].socketId).st.players[1].name = players[1].name
  /\ reset(State, Fresh).st = State

\* C17: every coordinate of a seat's shot history is a cell of the 10x10
\* grid: a fire whose row or column lies outside the grid adds no entry.
C17_ShotsInsideGrid ==
  \A pn \in Seats : \A k \in players[pn].shotsTaken :
     k[1] \in 0..9 /\ k[2] \in 0..9

\* the shot of seat pn at key newly hits a ship cell and fills that ship's
\* hit set
SinksShip(pn, key) ==
  LET foe == players[Other(pn)] IN
  /\ key \in DOMAIN foe.board
  /\ ~foe.board[key].hit
  /\ Cardinality(foe.ships[foe.board[key].shipId].hits \cup {key})
       = foe.ships[foe.board[key].shipId].size

\* the sunkShip fields of the shotResult messages among the emissions
SunkReports(msgs) ==
  {msgs[i].body.sunkShip : i \in {j \in DOMAIN msgs : msgs[j].ev = "shotResult"}}

\* C18: the shotResult of an accepted shot names a sunk ship if and only if
\* the shot newly hits a cell of that ship and fills its hit set; a miss, a
\* hit that leaves the ship afloat and a shot at a cell already flagged hit
\* report no sunk ship.
C18_SunkReportedIffSunk ==
  \A s \in Live, pn \in Seats :
     \A cell \in {Key(x.r, x.c) : x \in NextScan(pn)} \cup FireCells :
        FireChecks(s, pn, cell) =>
          SunkReports(fire(State, s, pn, cell[1], cell[2]).out) =
            IF SinksShip(pn, cell)
              THEN {SHIP_DEFS[i].name :
                      i \in {j \in DOMAIN SHIP_DEFS :
                               SHIP_DEFS[j].key = players[Other(pn)].board[cell].shipId}}
              ELSE {NullName}

\* C19: a seat whose ready flag is true is bound to a connection and has the
\* five ship kinds on file; a ready event for a seat without a complete fleet,
\* or from a connection that is not the seat's, leaves the ready flags, the
\* phase and the turn as they were.
C19_ReadyNeedsFleet ==
  /\ \A pn \in Seats :
       players[pn].ready =>
         players[pn].socketId # Null /\ DOMAIN players[pn].ships = ShipKeys
  /\ \A s \in Live, slot \in SlotInputs, rnd \in Seats :
       (\/ slot \notin Seats
        \/ players[slot].socketId # s
        \/ FleetIncomplete(slot)) =>
          LET after == ready(State, s, slot, rnd).st
          IN  /\ \A pn \in Seats : after.players[pn].ready = players[pn].ready
              /\ after.phase = phase
              /\ after.turn = turn

\* C19 witness: one seat is ready with its fleet on file, the other seat is
\* bound and has no fleet; its ready event is refused and no match starts.
C19_Witness ==
  \E pn \in Seats :
     /\ players[pn].ready
     /\ DOMAIN players[pn].ships = ShipKeys
     /\ players[Other(pn)].socketId # Null
     /\ DOMAIN players[Other(pn)].ships = {}
     /\ phase = PLACING
     /\ ready(State, players[Other(pn)].socketId, Other(pn), 1).st = State

\* the board cells of p that carry ship id
CellsOfShip(p, id) == {k \in DOMAIN p.board : p.board[k].shipId = id}

\* C20: for each seat, every ship's hit set lies within the board cells that
\* carry that ship, a board cell is flagged hit if and only if its coordinate
\* is in its ship's hit set, and the occupied cells are exactly the cells of
\* the ships on file: every cell carries a ship of the fleet and every ship
\* has as many cells as its size.
C20_BoardAndFleetAgree ==
  \A pn \in Seats :
     LET p == players[pn] IN
     /\ \A id \in DOMAIN p.ships :
          /\ p.ships[id].hits \subseteq CellsOfShip(p, id)
          /\ Cardinality(CellsOfShip(p, id)) = p.ships[id].size
     /\ \A k \in DOMAIN p.board :
          /\ p.board[k].shipId \in DOMAIN p.ships
          /\ p.board[k].hit <=> k \in p.ships[p.board[k].shipId].hits

\* C20 witness: a fleet with one ship hit, the other ships untouched, whose
\* opponent has also fired at a coordinate that carries no ship.
C20_Witness ==
  \E pn \in Seats :
     LET p == players[pn] IN
     /\ \E id \in DOMAIN p.ships : p.ships[id].hits # {}
     /\ \E id \in DOMAIN p.ships : p.ships[id].hits = {}
     /\ \E k \in DOMAIN p.board : p.board[k].hit
     /\ players[Other(pn)].shotsTaken \ DOMAIN p.board # {}

\* C21: the phase is LOBBY if and only if at least one seat is vacant.
C21_LobbyIffVacancy ==
  (phase = LOBBY) <=> (\E pn \in Seats : players[pn].socketId = Null)

\* C21 witness: a match is running with both seats bound, and the connection
\* of one seat may leave, which returns the phase to LOBBY.
C21_Witness ==
  /\ phase = IN_PROGRESS
  /\ \A pn \in Seats : players[pn].socketId # Null
  /\ \E pn \in Seats : players[pn].shotsTaken # {}
  /\ disconnect(State, players[1].socketId).st.phase = LOBBY
  /\ join(State, players[1].socketId, 1).st.phase = IN_PROGRESS

\* the seat's player state carries nothing of an earlier match: no shot taken,
\* no cell of its board flagged hit, no ship with a hit
CleanSeat(p) ==
  /\ p.shotsTaken = {}
  /\ \A key \in DOMAIN p.board : ~p.board[key].hit
  /\ \A id \in DOMAIN p.ships : p.ships[id].hits = {}

\* C22: at each transition of the phase into IN_PROGRESS both seats' shot
\* histories are empty, no cell of either board is flagged hit and every
\* ship's hit set is empty, also after a match aborted by a disconnect.
C22_MatchStartsClean ==
  [][(phase # IN_PROGRESS /\ phase' = IN_PROGRESS)
       => \A pn \in Seats : CleanSeat(players'[pn])]_vars

====
